---- MODULE Spec2Model ----
(***************************************************************************)
(* Model of the Chat agent of cf_ai_agentic_travel_helper (src/server.ts): *)
(* the one-time alternative itinerary workflow built on the agent's        *)
(* durable state (this.state), its message log (this.messages) and its     *)
(* scheduler (this.schedule -> executeTask).                               *)
(*                                                                         *)
(* Texts are sequences of character codes, so that trim, toLowerCase, the  *)
(* classifier's regular expressions and the rolling hash are computed the  *)
(* way the code computes them.                                             *)
(***************************************************************************)
EXTENDS Integers, Sequences, FiniteSets, Bags, TLC

----------------------------------------------------------------------------
(* Bounds of the model                                                     *)

\* chat turns whose answer finishes
MaxTurns == 2
\* deliveries of a pending invocation beyond the first (at-least-once)
MaxRedeliver == 1
\* executeTask invocations suspended at an await at the same time
MaxInFlight == 2
\* payloads enqueued by callers other than wrappedOnFinish
MaxForeign == 1
\* failures of setState, saveMessages or schedule
MaxFaults == 1
\* calls of the upsertPreferences tool
MaxUpserts == 1
\* keys of a stored preferences object and of a delta
MaxPrefKeys == 2
\* keys of a mapping nested in a preferences object or in a delta
MaxNestedKeys == 1
\* characters of a text whose fingerprint is computed step by step
MaxTextLen == 6

----------------------------------------------------------------------------
(* Text helpers                                                            *)

\* "trip"
TxtTrip == <<116, 114, 105, 112>>
\* " trip " (same request with surrounding blanks)
TxtTripPadded == <<32, 116, 114, 105, 112, 32>>
\* "3 day"
TxtThreeDay == <<51, 32, 100, 97, 121>>
\* "trips" (no word boundary after "trip")
TxtTrips == <<116, 114, 105, 112, 115>>
\* "" (no user text)
TxtEmpty == <<>>

UserTexts == {TxtTrip, TxtTripPadded, TxtThreeDay, TxtTrips, TxtEmpty}

\* final.text of the primary answer
FinalTexts == {"planA", "planB"}

\* what generateText can resolve to: "", " " and "D"
AltTexts == {<<>>, <<32>>, <<68>>}

IsSpace(c) == c \in {9, 10, 11, 12, 13, 32}

IsDigit(c) == c \in 48..57

\* \w of a JavaScript regular expression
IsWordChar(c) == c \in (48..57) \cup (65..90) \cup {95} \cup (97..122)

RECURSIVE TrimStart(_)
TrimStart(t) ==
    IF t = <<>> \/ ~IsSpace(Head(t)) THEN t ELSE TrimStart(Tail(t))

RECURSIVE TrimEnd(_)
TrimEnd(t) ==
    IF t = <<>> \/ ~IsSpace(t[Len(t)]) THEN t ELSE TrimEnd(SubSeq(t, 1, Len(t) - 1))

\* String.prototype.trim
Trim(t) == TrimEnd(TrimStart(t))

\* String.prototype.toLowerCase
ToLowerCase(t) == [i \in 1..Len(t) |-> IF t[i] \in 65..90 THEN t[i] + 32 ELSE t[i]]

\* \b at offset i (between t[i] and t[i+1]), 0 <= i <= Len(t)
WordBoundary(t, i) ==
    LET before == i >= 1 /\ IsWordChar(t[i])
        after  == i < Len(t) /\ IsWordChar(t[i + 1])
    IN before # after

\* the literal w occupies t[i+1 .. i+Len(w)]
LiteralAt(t, i, w) ==
    /\ i + Len(w) <= Len(t)
    /\ \A k \in 1..Len(w) : t[i + k] = w[k]

LitDay == <<100, 97, 121>>
LitWeek == <<119, 101, 101, 107>>
LitEnd == <<101, 110, 100>>
LitItinerary == <<105, 116, 105, 110, 101, 114, 97, 114, 121>>
LitTrip == <<116, 114, 105, 112>>

\* /\b(\d+)\s*day(s)?\b/
MatchesDays(t) ==
    \E i \in 0..Len(t) : \E j \in (i + 1)..Len(t) : \E k \in j..Len(t) :
        /\ WordBoundary(t, i)
        /\ \A d \in (i + 1)..j : IsDigit(t[d])
        /\ \A w \in (j + 1)..k : IsSpace(t[w])
        /\ LiteralAt(t, k, LitDay)
        /\ \/ WordBoundary(t, k + 3)
           \/ /\ LiteralAt(t, k + 3, <<115>>)
              /\ WordBoundary(t, k + 4)

\* /\bweek(end)?\b/
MatchesWeek(t) ==
    \E i \in 0..Len(t) :
        /\ WordBoundary(t, i)
        /\ LiteralAt(t, i, LitWeek)
        /\ \/ WordBoundary(t, i + 4)
           \/ /\ LiteralAt(t, i + 4, LitEnd)
              /\ WordBoundary(t, i + 7)

\* /\bitinerary\b/ and /\btrip\b/
MatchesWord(t, w) ==
    \E i \in 0..Len(t) :
        /\ WordBoundary(t, i)
        /\ LiteralAt(t, i, w)
        /\ WordBoundary(t, i + Len(w))

\* mutant of looksLikeItineraryRequest: every text is a request
looksLikeAnything(t) == TRUE

looksLikeItineraryRequest(t) ==
    LET lower == ToLowerCase(t)
    IN \/ MatchesDays(lower)
       \/ MatchesWeek(lower)
       \/ MatchesWord(lower, LitItinerary)
       \/ MatchesWord(lower, LitTrip)

HexChar == <<"0", "1", "2", "3", "4", "5", "6", "7",
             "8", "9", "a", "b", "c", "d", "e", "f">>

\* Number.prototype.toString(16) of an integer in 0..65535
RECURSIVE ToHex(_)
ToHex(h) ==
    IF h < 16 THEN <<HexChar[h + 1]>>
    ELSE ToHex(h \div 16) \o <<HexChar[(h % 16) + 1]>>

\* the four hexadecimal digits of a low half below a non-zero high half
Hex4(lo) ==
    <<HexChar[(lo \div 4096) + 1], HexChar[((lo \div 256) % 16) + 1],
      HexChar[((lo \div 16) % 16) + 1], HexChar[(lo % 16) + 1]>>

\* mutant of HashStep: the carry from the low into the high half is lost
HashStepNoCarry(h, c) == <<(h[1] * 31) % 65536, (h[2] * 31 + c) % 65536>>

\* One step h = (h * 31 + c) >>> 0 on a 32-bit accumulator kept as two 16-bit
\* halves <<hi, lo>> (h = hi * 65536 + lo), so that no intermediate value
\* leaves the range of TLC's 32-bit integers.
HashStep(h, c) ==
    LET low == h[2] * 31 + c
    IN <<(h[1] * 31 + (low \div 65536)) % 65536, low % 65536>>

\* the accumulator after the first n characters of t
RECURSIVE HashAcc(_, _)
HashAcc(t, n) ==
    IF n = 0 THEN <<0, 0>> ELSE HashStep(HashAcc(t, n - 1), t[n])

\* h.toString(16) for h = hi * 65536 + lo
HashHex(h) == IF h[1] = 0 THEN ToHex(h[2]) ELSE ToHex(h[1]) \o Hex4(h[2])

itineraryIdFrom(t) == <<"itn-">> \o HashHex(HashAcc(t, Len(t)))

\* lastUserText of onChatMessage for a user message with text part t
lastUserText(t) == Trim(t)

----------------------------------------------------------------------------
(* Values                                                                  *)

\* a missing payload.retry
NoRetry == -1

\* a missing or empty string (falsy in JavaScript)
NoText == <<>>

\* The description string handed to executeTask, by the outcome of
\* JSON.parse: form "text" does not parse, form "null" parses to null,
\* form "object" parses to an object with the fields below ("" and NoText
\* stand for an absent field).
Description(form, kind, itineraryId, retry) ==
    [form |-> form, kind |-> kind, itineraryId |-> itineraryId, retry |-> retry]

\* JSON.stringify({ kind: "altItinerary", itineraryId }) and
\* JSON.stringify({ kind: "altItinerary", itineraryId, retry })
AltDescription(itineraryId, retry) ==
    Description("object", "altItinerary", itineraryId, retry)

\* a plain label such as the schedule tool passes
PlainLabel == Description("text", "", NoText, NoRetry)

\* the JSON text null
JsonNull == Description("null", "", NoText, NoRetry)

\* a JSON object without kind
JsonNoKind == Description("object", "", NoText, NoRetry)

\* a JSON object of kind "altItinerary" without itineraryId
JsonNoId == Description("object", "altItinerary", NoText, NoRetry)

\* an altItinerary payload for a fingerprint no request of UserTexts has
JsonUnknownId == AltDescription(<<"itn-", "0">>, NoRetry)

ForeignDescriptions == {PlainLabel, JsonNull, JsonNoKind, JsonNoId, JsonUnknownId}

\* a JavaScript object used as a map: a function with a finite domain
EmptyMap == <<>>

\* { ...m, [k]: v }
Put(m, k, v) == [x \in (DOMAIN m) \cup {k} |-> IF x = k THEN v ELSE m[x]]

\* m[k] used as a condition (a missing key is undefined, hence falsy)
Truthy(m, k) == k \in DOMAIN m /\ m[k]

\* AgentState; lastItinerary is <<>> when undefined, else <<[id, text]>>
InitState ==
    [profile |-> [preferences |-> EmptyMap, notes |-> NoText],
     lastItinerary |-> <<>>,
     altOfferedFor |-> EmptyMap]

Idle == [pc |-> "idle", payload |-> PlainLabel, s |-> InitState, finalAlt |-> NoText]

Slots == 1..MaxInFlight

----------------------------------------------------------------------------
(* State                                                                   *)

VARIABLES
    state,        \* this.state of the agent (AgentState)
    messages,     \* this.messages, the messages executeTask has appended
    queue,        \* the scheduler's pending invocations (a bag)
    inflight,     \* executeTask invocations suspended at an await
    genCalls,     \* history: number of generateText calls per itineraryId
    genOk,        \* history: number of non-empty results of generateText per itineraryId
    primaryEnq,   \* history: number of schedule calls of onFinish per itineraryId
    committed,    \* history: itineraryIds a setState has marked true
    exhausted,    \* history: itineraryIds whose catch found retry > 1
    emitFailed,   \* history: itineraryIds whose saveMessages rejected after the state write
    last,         \* history: the step taken last and its outcome
    turns,        \* number of chat turns finished
    redelivered,  \* number of duplicate deliveries by the scheduler
    foreign,      \* number of payloads enqueued by other callers
    faults,       \* number of failures of setState, saveMessages or schedule
    upserts,      \* number of calls of the upsertPreferences tool
    fp            \* a run of itineraryIdFrom: its text, loop index and accumulator

store == <<state, messages, queue, inflight>>
history == <<genCalls, genOk, primaryEnq, committed, exhausted, emitFailed, last>>
budget == <<turns, redelivered, foreign, faults, upserts>>
vars == <<store, history, budget, fp>>

Step(op, payload, result) ==
    [op |-> op, payload |-> payload, result |-> result]

Count(m, k) == IF k \in DOMAIN m THEN m[k] ELSE 0

\* everything but this.state after construction
InitRest ==
    /\ messages = <<>>
    /\ queue = EmptyBag
    /\ inflight = [i \in Slots |-> Idle]
    /\ genCalls = EmptyMap
    /\ genOk = EmptyMap
    /\ primaryEnq = EmptyMap
    /\ committed = {}
    /\ exhausted = {}
    /\ emitFailed = {}
    /\ last = Step("init", PlainLabel, "")
    /\ turns = 0
    /\ redelivered = 0
    /\ foreign = 0
    /\ faults = 0
    /\ upserts = 0

\* itineraryIdFrom called with text t, before its loop: let h = 0
FpStart(t) == [text |-> t, i |-> 0, h |-> <<0, 0>>, wrapped |-> FALSE, id |-> NoText]

Init == state = InitState /\ InitRest /\ fp = FpStart(NoText)

\* an entry of the scheduler's table
Scheduled(delay, payload) == [delay |-> delay, callback |-> "executeTask", payload |-> payload]

\* this.schedule(delay, "executeTask", payload)
schedule(q, delay, payload) == q (+) SetToBag({Scheduled(delay, payload)})

----------------------------------------------------------------------------
(* wrappedOnFinish                                                         *)

\* Guard: only once per itineraryId
already(s, itineraryId) == Truthy(s.altOfferedFor, itineraryId)

\* mutant of updated: the text of the answer is not stored
updatedWithoutText(s, itineraryId, finalText) ==
    [s EXCEPT !.lastItinerary = <<[id |-> itineraryId, text |-> ""]>>,
              !.altOfferedFor = Put(s.altOfferedFor, itineraryId, FALSE)]

\* mutant of updated: the entry of altOfferedFor is not written
updatedWithoutEntry(s, itineraryId, finalText) ==
    [s EXCEPT !.lastItinerary = <<[id |-> itineraryId, text |-> finalText]>>]

\* the AgentState written on scheduling
updated(s, itineraryId, finalText) ==
    [s EXCEPT !.lastItinerary = <<[id |-> itineraryId, text |-> finalText]>>,
              !.altOfferedFor = Put(s.altOfferedFor, itineraryId, FALSE)]

\* The part of wrappedOnFinish after the framework's onFinish, for a turn
\* whose last user message has text t and whose answer has text finalText;
\* scheduleOk is whether this.schedule resolves.
OnFinish(t, finalText, scheduleOk) ==
    LET text == lastUserText(t)
        itineraryId == itineraryIdFrom(text)
    IN /\ turns < MaxTurns
       /\ turns' = turns + 1
       /\ scheduleOk \/ faults < MaxFaults
       /\ UNCHANGED <<messages, inflight, genCalls, genOk, committed, exhausted,
                      redelivered, foreign, upserts, emitFailed, fp>>
       /\ IF text = NoText \/ ~looksLikeItineraryRequest(text)
          THEN /\ scheduleOk
               /\ last' = Step("onFinish", AltDescription(itineraryId, NoRetry), "rejected")
               /\ UNCHANGED <<state, queue, primaryEnq, faults>>
          ELSE IF already(state, itineraryId)
          THEN /\ scheduleOk
               /\ last' = Step("onFinish", AltDescription(itineraryId, NoRetry), "already")
               /\ UNCHANGED <<state, queue, primaryEnq, faults>>
          ELSE /\ state' = updated(state, itineraryId, finalText)
               /\ IF scheduleOk
                  THEN /\ queue' = schedule(queue, 15, AltDescription(itineraryId, NoRetry))
                       /\ primaryEnq' = Put(primaryEnq, itineraryId, Count(primaryEnq, itineraryId) + 1)
                       /\ last' = Step("onFinish", AltDescription(itineraryId, NoRetry), "scheduled")
                       /\ UNCHANGED faults
                  ELSE /\ faults' = faults + 1
                       /\ last' = Step("onFinish", AltDescription(itineraryId, NoRetry), "scheduleFailed")
                       /\ UNCHANGED <<queue, primaryEnq>>

----------------------------------------------------------------------------
(* executeTask                                                             *)

\* JSON.parse(description) returned null
ParsesToNull(description) == description.form = "null"

\* payload after the try/catch around JSON.parse: {} when parsing threw
payloadOf(description) ==
    IF description.form = "object" THEN description ELSE JsonNoKind

\* mutant of IsAltItinerary: the itineraryId is not required
IsAltItineraryByKind(payload) == payload.kind = "altItinerary"

\* payload.kind === "altItinerary" && payload.itineraryId
IsAltItinerary(payload) ==
    payload.kind = "altItinerary" /\ payload.itineraryId # NoText

\* mutant of offered: the guard is missing
offeredNever(s, itineraryId) == FALSE

\* offeredMap[itineraryId] of the guard
offered(s, itineraryId) == Truthy(s.altOfferedFor, itineraryId)

\* mutant of baseMatches: the id of the stored itinerary is not compared
baseMatchesAny(s, itineraryId) == s.lastItinerary # <<>>

\* mutant of baseMatches: the base check is missing
baseMatchesAlways(s, itineraryId) == TRUE

\* negation of: !base || base.id !== itineraryId
baseMatches(s, itineraryId) ==
    s.lastItinerary # <<>> /\ s.lastItinerary[1].id = itineraryId

\* mutant of retryOf: (payload.retry ?? 1) + 1
retryOfFromOne(payload) == (IF payload.retry = NoRetry THEN 1 ELSE payload.retry) + 1

\* (payload.retry ?? 0) + 1
retryOf(payload) == (IF payload.retry = NoRetry THEN 0 ELSE payload.retry) + 1

\* the message of the default behaviour
TaskMessage(description) ==
    [role |-> "user", tag |-> "Running scheduled task", ref |-> description, text |-> NoText]

\* the message carrying the alternative
AltMessage(itineraryId, finalAlt) ==
    [role |-> "assistant", tag |-> "Alternative itinerary",
     ref |-> AltDescription(itineraryId, NoRetry), text |-> finalAlt]

\* the state written on success: { ...s, altOfferedFor: { ...offeredMap, [id]: true } }
offeredState(s, itineraryId) ==
    [s EXCEPT !.altOfferedFor = Put(s.altOfferedFor, itineraryId, TRUE)]

FreeSlots == {i \in Slots : inflight[i].pc = "idle"}

Inject(n) == faults + n <= MaxFaults /\ faults' = faults + n

\* The scheduler invokes executeTask with a pending entry; with again it
\* keeps the entry and will deliver it once more (at-least-once delivery).
\* The step runs the handler up to its first await that another event can
\* overtake (generateText), or to its end; saveOk is whether the
\* saveMessages of the default behaviour resolves.
ExecuteTask(item, again, saveOk) ==
    LET description == item.payload
        payload == payloadOf(description)
        itineraryId == payload.itineraryId
        slot == CHOOSE i \in FreeSlots : \A j \in FreeSlots : i <= j
    IN /\ BagIn(item, queue)
       /\ IF again
          THEN /\ redelivered < MaxRedeliver
               /\ redelivered' = redelivered + 1
               /\ queue' = queue
          ELSE /\ queue' = queue (-) SetToBag({item})
               /\ UNCHANGED redelivered
       /\ UNCHANGED <<state, genOk, primaryEnq, committed, exhausted, turns, foreign, upserts, emitFailed, fp>>
       /\ IF ParsesToNull(description)
          THEN /\ saveOk /\ Inject(0)
               /\ last' = Step("executeTask", description, "raised")
               /\ UNCHANGED <<messages, inflight, genCalls>>
          ELSE IF IsAltItinerary(payload)
          THEN /\ saveOk /\ Inject(0)
               /\ UNCHANGED messages
               /\ IF offered(state, itineraryId)
                  THEN /\ last' = Step("executeTask", description, "offered")
                       /\ UNCHANGED <<inflight, genCalls>>
                  ELSE IF ~baseMatches(state, itineraryId)
                  THEN /\ last' = Step("executeTask", description, "noBase")
                       /\ UNCHANGED <<inflight, genCalls>>
                  ELSE /\ FreeSlots # {}
                       /\ inflight' = [inflight EXCEPT ![slot] =
                              [pc |-> "generateText", payload |-> payload,
                               s |-> state, finalAlt |-> NoText]]
                       /\ genCalls' = Put(genCalls, itineraryId, Count(genCalls, itineraryId) + 1)
                       /\ last' = Step("executeTask", description, "generating")
          ELSE /\ UNCHANGED <<inflight, genCalls>>
               /\ IF saveOk
                  THEN /\ Inject(0)
                       /\ messages' = Append(messages, TaskMessage(description))
                       /\ last' = Step("executeTask", description, "default")
                  ELSE /\ Inject(1)
                       /\ last' = Step("executeTask", description, "defaultRaised")
                       /\ UNCHANGED messages

\* The catch block of the altItinerary branch for the invocation in slot,
\* entered from the await named op; scheduleOk is whether this.schedule
\* resolves, n the number of failures injected before the catch.
Catch(slot, op, scheduleOk, n) ==
    LET payload == inflight[slot].payload
        itineraryId == payload.itineraryId
        retry == retryOf(payload)
        description == AltDescription(itineraryId, payload.retry)
    IN /\ inflight' = [inflight EXCEPT ![slot] = Idle]
       /\ IF retry <= 1
          THEN IF scheduleOk
               THEN /\ Inject(n)
                    /\ queue' = schedule(queue, 10, AltDescription(itineraryId, retry))
                    /\ last' = Step(op, description, "retry")
                    /\ UNCHANGED exhausted
               ELSE /\ Inject(n + 1)
                    /\ last' = Step(op, description, "raised")
                    /\ UNCHANGED <<queue, exhausted>>
          ELSE /\ scheduleOk /\ Inject(n)
               /\ exhausted' = exhausted \cup {itineraryId}
               /\ last' = Step(op, description, "exhausted")
               /\ UNCHANGED queue

\* generateText rejects (network or model error)
GenerateTextRejects(slot, scheduleOk) ==
    /\ inflight[slot].pc = "generateText"
    /\ Catch(slot, "generateText rejected", scheduleOk, 0)
    /\ UNCHANGED <<state, messages, genCalls, genOk, primaryEnq, committed,
                   turns, redelivered, foreign, upserts, emitFailed, fp>>

\* generateText resolves with altText; setStateOk is whether this.setState
\* succeeds. On success the invocation is suspended again in saveMessages.
GenerateTextResolves(slot, altText, setStateOk, scheduleOk) ==
    LET inv == inflight[slot]
        itineraryId == inv.payload.itineraryId
        finalAlt == Trim(altText)
        description == AltDescription(itineraryId, inv.payload.retry)
    IN /\ inv.pc = "generateText"
       /\ UNCHANGED <<messages, genCalls, primaryEnq, turns, redelivered, foreign, upserts, emitFailed, fp>>
       /\ IF finalAlt = NoText
          THEN /\ setStateOk
               /\ Catch(slot, "generateText empty", scheduleOk, 0)
               /\ UNCHANGED <<state, genOk, committed>>
          ELSE /\ genOk' = Put(genOk, itineraryId, Count(genOk, itineraryId) + 1)
               /\ IF setStateOk
                  THEN /\ scheduleOk /\ Inject(0)
                       /\ state' = offeredState(inv.s, itineraryId)
                       /\ committed' = committed \cup {itineraryId}
                       /\ inflight' = [inflight EXCEPT ![slot] =
                              [inv EXCEPT !.pc = "saveMessages", !.finalAlt = finalAlt]]
                       /\ last' = Step("setState resolved", description, "saving")
                       /\ UNCHANGED <<queue, exhausted>>
                  ELSE /\ Catch(slot, "setState rejected", scheduleOk, 1)
                       /\ UNCHANGED <<state, committed>>

\* saveMessages([...this.messages, alternative]) resolves
SaveMessagesResolves(slot) ==
    LET inv == inflight[slot]
        itineraryId == inv.payload.itineraryId
    IN /\ inv.pc = "saveMessages"
       /\ messages' = Append(messages, AltMessage(itineraryId, inv.finalAlt))
       /\ inflight' = [inflight EXCEPT ![slot] = Idle]
       /\ last' = Step("saveMessages resolved",
                       AltDescription(itineraryId, inv.payload.retry), "posted")
       /\ UNCHANGED <<state, queue, genCalls, genOk, primaryEnq, committed,
                      exhausted, emitFailed, budget, fp>>

\* saveMessages rejects after the state was written
SaveMessagesRejects(slot, scheduleOk) ==
    /\ inflight[slot].pc = "saveMessages"
    /\ Catch(slot, "saveMessages rejected", scheduleOk, 1)
    /\ emitFailed' = emitFailed \cup {inflight[slot].payload.itineraryId}
    /\ UNCHANGED <<state, messages, genCalls, genOk, primaryEnq, committed,
                   turns, redelivered, foreign, upserts, fp>>

\* Another caller of this.schedule (the schedule tool, an older version of
\* the agent) enqueues a payload that wrappedOnFinish did not write.
ScheduleForeign(description) ==
    /\ foreign < MaxForeign
    /\ foreign' = foreign + 1
    /\ queue' = schedule(queue, 0, description)
    /\ last' = Step("schedule", description, "enqueued")
    /\ UNCHANGED <<state, messages, inflight, genCalls, genOk, primaryEnq,
                   committed, exhausted, turns, redelivered, faults, upserts, emitFailed, fp>>

----------------------------------------------------------------------------
(* itineraryIdFrom, one iteration of its loop at a time                    *)

\* "trip" followed by a blank and four euro signs (char code 8364)
TxtTripEuro == TxtTrip \o <<32, 8364, 8364, 8364, 8364>>

\* char codes of the generated texts: "a", "z" and the euro sign
HashChars == {97, 122, 8364}

\* the texts itineraryIdFrom is run on step by step
HashTexts ==
    UNION {[1..n -> HashChars] : n \in 0..MaxTextLen}
        \cup {TxtTrip, TxtThreeDay, TxtTripEuro}

\* One iteration: h = (h * 31 + t.charCodeAt(i)) >>> 0. The product is below
\* 2^37, so the double holding it is exact and >>> 0 reduces it modulo 2^32;
\* wrapped records that the reduction dropped something.
HashChar ==
    LET c == fp.text[fp.i + 1]
        carry == (fp.h[2] * 31 + c) \div 65536
    IN /\ fp.id = NoText
       /\ fp.i < Len(fp.text)
       /\ fp' = [fp EXCEPT !.i = @ + 1,
                           !.h = HashStep(fp.h, c),
                           !.wrapped = @ \/ fp.h[1] * 31 + carry >= 65536]
       /\ UNCHANGED <<store, history, budget>>

\* the loop is over: return `itn-${h.toString(16)}`
HashReturn ==
    /\ fp.id = NoText
    /\ fp.i = Len(fp.text)
    /\ fp' = [fp EXCEPT !.id = <<"itn-">> \o HashHex(fp.h)]
    /\ UNCHANGED <<store, history, budget>>

\* a chat turn whose last user text is the text just fingerprinted
OnFinishHashed(finalText) ==
    /\ fp.id # NoText
    /\ OnFinish(fp.text, finalText, TRUE)

----------------------------------------------------------------------------
(* Preference store (the upsertPreferences tool)                           *)

\* A preference value: a scalar, an array or a mapping. The three fields not
\* named by type hold a fixed filler, so that values stay comparable.
ScalarValue(n) == [type |-> "scalar", scalar |-> n, items |-> <<>>, map |-> EmptyMap]
ArrayValue(a) == [type |-> "array", scalar |-> 0, items |-> a, map |-> EmptyMap]
MapValue(m) == [type |-> "map", scalar |-> 0, items |-> <<>>, map |-> m]

IsMap(v) == v.type = "map"

\* all mappings from at most n of the keys to the values
MapsOver(keys, values, n) ==
    UNION {[K -> values] : K \in {S \in SUBSET keys : Cardinality(S) <= n}}

PrefKeys == {"a", "b", "c"}
NestedKeys == {"x", "y"}
NestedValues == {ScalarValue(1), ScalarValue(2)}
PrefValues ==
    {ScalarValue(n) : n \in 1..4} \cup {ArrayValue(<<1, 2>>)}
        \cup {MapValue(m) : m \in MapsOver(NestedKeys, NestedValues, MaxNestedKeys)}

\* the preferences objects and the deltas of the model
PrefMaps == MapsOver(PrefKeys, PrefValues, MaxPrefKeys)

\* mutant of deepMerge: a shallow merge, { ...target, ...delta }
shallowMerge(target, delta) ==
    [k \in (DOMAIN target) \cup (DOMAIN delta) |->
        IF k \in DOMAIN delta THEN delta[k] ELSE target[k]]

\* Recursive deep merge of delta into target: a key of delta whose values on
\* both sides are mappings is merged recursively, any other key of delta
\* takes the incoming value, every other key of target is kept.
RECURSIVE deepMerge(_, _)
deepMerge(target, delta) ==
    [k \in (DOMAIN target) \cup (DOMAIN delta) |->
        IF k \notin DOMAIN delta THEN target[k]
        ELSE IF k \in DOMAIN target /\ IsMap(target[k]) /\ IsMap(delta[k])
        THEN MapValue(deepMerge(target[k].map, delta[k].map))
        ELSE delta[k]]

\* upsert(delta, notes): one read-modify-write of the agent state; a notes
\* argument of NoText stands for notes not provided.
Upsert(delta, notes) ==
    /\ upserts < MaxUpserts
    /\ upserts' = upserts + 1
    /\ state' = [state EXCEPT
                   !.profile.preferences = deepMerge(@, delta),
                   !.profile.notes = IF notes = NoText THEN @ ELSE notes]
    /\ last' = [op |-> "upsertPreferences", payload |-> delta, result |-> "merged",
                before |-> state.profile]
    /\ UNCHANGED <<messages, queue, inflight, genCalls, genOk, primaryEnq,
                   committed, exhausted, emitFailed, turns, redelivered, foreign, faults, fp>>

\* the notes argument: not provided, or "n"
NotesTexts == {NoText, <<110>>}

\* notes stored by an earlier upsert: "o"
StoredNotes == <<111>>

----------------------------------------------------------------------------
(* Specifications                                                          *)

\* The agent with a store, a message log and a scheduler that do not fail,
\* and no other caller of this.schedule.
Next ==
    \/ \E t \in UserTexts, finalText \in FinalTexts : OnFinish(t, finalText, TRUE)
    \/ \E item \in BagToSet(queue), again \in BOOLEAN : ExecuteTask(item, again, TRUE)
    \/ \E slot \in Slots : GenerateTextRejects(slot, TRUE)
    \/ \E slot \in Slots, altText \in AltTexts :
           GenerateTextResolves(slot, altText, TRUE, TRUE)
    \/ \E slot \in Slots : SaveMessagesResolves(slot)

Spec == Init /\ [][Next]_vars

\* The same with payloads of other callers in the scheduler's table; the
\* saveMessages of the default behaviour may fail.
NextForeign ==
    \/ \E t \in UserTexts, finalText \in FinalTexts : OnFinish(t, finalText, TRUE)
    \/ \E item \in BagToSet(queue), again \in BOOLEAN, saveOk \in BOOLEAN :
           ExecuteTask(item, again, saveOk)
    \/ \E slot \in Slots : GenerateTextRejects(slot, TRUE)
    \/ \E slot \in Slots, altText \in AltTexts :
           GenerateTextResolves(slot, altText, TRUE, TRUE)
    \/ \E slot \in Slots : SaveMessagesResolves(slot)
    \/ \E description \in ForeignDescriptions : ScheduleForeign(description)

SpecForeign == Init /\ [][NextForeign]_vars

\* The agent with a store, a message log and a scheduler that may fail.
NextFaults ==
    \/ \E t \in UserTexts, finalText \in FinalTexts, scheduleOk \in BOOLEAN :
           OnFinish(t, finalText, scheduleOk)
    \/ \E item \in BagToSet(queue), again \in BOOLEAN, saveOk \in BOOLEAN :
           ExecuteTask(item, again, saveOk)
    \/ \E slot \in Slots, scheduleOk \in BOOLEAN :
           GenerateTextRejects(slot, scheduleOk)
    \/ \E slot \in Slots, altText \in AltTexts, setStateOk \in BOOLEAN, scheduleOk \in BOOLEAN :
           GenerateTextResolves(slot, altText, setStateOk, scheduleOk)
    \/ \E slot \in Slots : SaveMessagesResolves(slot)
    \/ \E slot \in Slots, scheduleOk \in BOOLEAN : SaveMessagesRejects(slot, scheduleOk)

SpecFaults == Init /\ [][NextFaults]_vars

\* The preference store alone: the stored preferences are any object of
\* PrefMaps and the tool is called with any delta of PrefMaps.
InitMerge ==
    /\ \E prefs \in PrefMaps :
           state = [InitState EXCEPT !.profile = [preferences |-> prefs, notes |-> StoredNotes]]
    /\ InitRest
    /\ fp = FpStart(NoText)

NextMerge == \E delta \in PrefMaps, notes \in NotesTexts : Upsert(delta, notes)

SpecMerge == InitMerge /\ [][NextMerge]_vars

\* itineraryIdFrom alone on any text of HashTexts, followed by chat turns
\* with that text.
InitHash ==
    /\ state = InitState
    /\ InitRest
    /\ \E t \in HashTexts : fp = FpStart(t)

NextHash ==
    \/ HashChar
    \/ HashReturn
    \/ \E finalText \in FinalTexts : OnFinishHashed(finalText)

SpecHash == InitHash /\ [][NextHash]_vars

----------------------------------------------------------------------------
(* Vocabulary of the properties                                            *)

\* the altItinerary payloads executeTask accepts
IsAltDescription(description) ==
    ~ParsesToNull(description) /\ IsAltItinerary(payloadOf(description))

\* positions of the alternative messages for itineraryId in the log
AltPositions(itineraryId) ==
    {i \in DOMAIN messages :
        /\ messages[i].tag = "Alternative itinerary"
        /\ messages[i].ref.itineraryId = itineraryId}

\* itineraryIds that occur anywhere in the histories
KnownIds ==
    (DOMAIN state.altOfferedFor) \cup (DOMAIN genCalls) \cup (DOMAIN primaryEnq)
        \cup committed \cup exhausted

\* pending scheduler entries carrying itineraryId, with multiplicity
Pending(q, itineraryId) ==
    LET S == {e \in BagToSet(q) :
                 IsAltDescription(e.payload) /\ e.payload.itineraryId = itineraryId}
    IN BagCardinality([e \in S |-> q[e]])

\* invocations for itineraryId suspended at an await
Running(itineraryId) ==
    {i \in Slots : inflight[i].pc # "idle" /\ inflight[i].payload.itineraryId = itineraryId}

\* nothing pending and nothing suspended
Quiescent == queue = EmptyBag /\ \A i \in Slots : inflight[i].pc = "idle"

\* The status of the spec's TaskRecord as the code keeps it: no entry of
\* altOfferedFor is NONE, true is COMPLETED, false is SCHEDULED, and
\* ABANDONED is a false entry whose retry the catch block has given up.
Status(s, ex, itineraryId) ==
    IF itineraryId \notin DOMAIN s.altOfferedFor THEN "none"
    ELSE IF s.altOfferedFor[itineraryId] THEN "completed"
    ELSE IF itineraryId \in ex THEN "abandoned"
    ELSE "scheduled"

----------------------------------------------------------------------------
(* Claims                                                                  *)

\* C1 (as claimed): a run of wrappedOnFinish for a text whose fingerprint
\* already has a task record, whatever its status, writes no state and
\* enqueues nothing, so that one text never has more than one invocation
\* enqueued by the primary path.
C1_IdempotentScheduling ==
    [][\A t \in UserTexts, finalText \in FinalTexts :
          (/\ OnFinish(t, finalText, TRUE)
           /\ looksLikeItineraryRequest(lastUserText(t))
           /\ itineraryIdFrom(lastUserText(t)) \in DOMAIN state.altOfferedFor)
          => (state' = state /\ queue' = queue /\ primaryEnq' = primaryEnq)]_vars

\* C2 (as claimed): the log never holds two alternative messages for the
\* same fingerprint.
C2_AtMostOnceEmission ==
    \A itineraryId \in KnownIds : Cardinality(AltPositions(itineraryId)) <= 1

\* C3 (as claimed): a fingerprint scheduled once whose generator calls all
\* fail gets at most 2 generator calls; once its retry is given up it has had
\* exactly 2 and no invocation for it is pending or running.
C3_BoundedRetry ==
    \A itineraryId \in KnownIds :
        (Count(primaryEnq, itineraryId) = 1 /\ Count(genOk, itineraryId) = 0)
        => /\ Count(genCalls, itineraryId) <= 2
           /\ itineraryId \in exhausted
              => /\ Count(genCalls, itineraryId) = 2
                 /\ Pending(queue, itineraryId) = 0
                 /\ Running(itineraryId) = {}

\* C4 (as claimed): the status of a fingerprint moves only from scheduled to
\* completed or abandoned, and a completed or abandoned fingerprint keeps its
\* status, gets no further generator call and no further enqueued invocation.
C4_TerminalStatuses ==
    [][\A itineraryId \in KnownIds :
          LET before == Status(state, exhausted, itineraryId)
              after == Status(state', exhausted', itineraryId)
          IN /\ before = "scheduled" => after \in {"scheduled", "completed", "abandoned"}
             /\ before \in {"completed", "abandoned"}
                => /\ after = before
                   /\ Count(genCalls', itineraryId) = Count(genCalls, itineraryId)
                   /\ Pending(queue', itineraryId) <= Pending(queue, itineraryId)]_vars

\* the step enqueues nothing
NothingEnqueued == \A e \in BagToSet(queue') : CopiesIn(e, queue') <= CopiesIn(e, queue)

\* the step is a run of executeTask with the description of a pending entry
Invokes(description) ==
    \E item \in BagToSet(queue), again \in BOOLEAN, saveOk \in BOOLEAN :
        item.payload = description /\ ExecuteTask(item, again, saveOk)

\* C5: a run of executeTask for a fingerprint that has no entry in
\* altOfferedFor writes no state, calls no generator, appends no message and
\* enqueues nothing.
C5_MissingRecordNoOp ==
    [][\A e \in BagToSet(queue) :
          (/\ Invokes(e.payload)
           /\ IsAltDescription(e.payload)
           /\ e.payload.itineraryId \notin DOMAIN state.altOfferedFor)
          => (UNCHANGED <<state, messages, inflight, genCalls>> /\ NothingEnqueued)]_vars

\* C5 happens: executeTask has just returned at the base check for a
\* fingerprint without record while another itinerary is stored.
C5_Witness ==
    /\ last.op = "executeTask"
    /\ last.result = "noBase"
    /\ last.payload.itineraryId \notin DOMAIN state.altOfferedFor
    /\ state.lastItinerary # <<>>

C7_OneAlternativePerItinerary ==
    Quiescent =>
        \A itineraryId \in DOMAIN primaryEnq :
            Count(genOk, itineraryId) = Count(genCalls, itineraryId)
            => AltPositions(itineraryId) # {}

\* the keys of delta are handled as the claim says and no other key changes
RECURSIVE MergedAsClaimed(_, _, _)
MergedAsClaimed(old, delta, new) ==
    /\ DOMAIN new = (DOMAIN old) \cup (DOMAIN delta)
    /\ \A k \in (DOMAIN old) \ (DOMAIN delta) : new[k] = old[k]
    /\ \A k \in DOMAIN delta :
           IF k \in DOMAIN old /\ old[k].type = "map" /\ delta[k].type = "map"
           THEN /\ new[k].type = "map"
                /\ MergedAsClaimed(old[k].map, delta[k].map, new[k].map)
           ELSE new[k] = delta[k]

\* the claim's example: {a:1, b:2}, {b:3, c:4} and {a:1, b:3, c:4}
ExampleStored == [k \in {"a", "b"} |-> IF k = "a" THEN ScalarValue(1) ELSE ScalarValue(2)]
ExampleDelta == [k \in {"b", "c"} |-> IF k = "b" THEN ScalarValue(3) ELSE ScalarValue(4)]
ExampleMerged ==
    [k \in {"a", "b", "c"} |->
        IF k = "a" THEN ScalarValue(1) ELSE IF k = "b" THEN ScalarValue(3) ELSE ScalarValue(4)]

\* C8: after an upsert the stored preferences differ from the ones before
\* only at keys of the delta: a key whose values on both sides are mappings
\* holds their recursive merge, any other key of the delta holds the incoming
\* value, and no key absent from the delta is deleted or changed; upserting
\* {b:3, c:4} into {a:1, b:2} leaves {a:1, b:3, c:4}.
C8_MergePreservesUntouchedKeys ==
    last.op = "upsertPreferences"
    => /\ MergedAsClaimed(last.before.preferences, last.payload, state.profile.preferences)
       /\ (last.before.preferences = ExampleStored /\ last.payload = ExampleDelta)
          => state.profile.preferences = ExampleMerged

\* C8 happens: the delta {b:3, c:4} has just been upserted into {a:1, b:2}.
C8_Witness ==
    /\ last.op = "upsertPreferences"
    /\ last.before.preferences = ExampleStored
    /\ last.payload = ExampleDelta
    /\ state.profile.preferences = ExampleMerged

\* C9 (as claimed): a fingerprint whose alternative message is in the log is
\* marked completed.
C9_WriteBeforeEmit ==
    \A i \in DOMAIN messages :
        messages[i].tag = "Alternative itinerary"
        => Status(state, exhausted, messages[i].ref.itineraryId) = "completed"

\* a description that is not valid JSON, or JSON without kind
\* "altItinerary" and an itineraryId
Malformed(description) ==
    \/ description.form # "object"
    \/ description.kind # "altItinerary"
    \/ description.itineraryId = NoText

\* C10 (as claimed): a run of executeTask with a malformed payload raises
\* nothing, changes no state and appends no message.
C10_MalformedAbsorbed ==
    [][\A e \in BagToSet(queue) :
          (Invokes(e.payload) /\ Malformed(e.payload))
          => /\ last'.result \notin {"raised", "defaultRaised"}
             /\ UNCHANGED <<state, messages>>]_vars

\* C10 (amended): a run of executeTask with a malformed payload changes no
\* agent state, calls no generator and enqueues nothing. Unless the payload
\* is the JSON text null, it takes the default behaviour: it appends the user
\* message "Running scheduled task: <payload>", or raises when that append
\* fails. For null it raises before anything is appended.
C10_MalformedDefault ==
    [][\A e \in BagToSet(queue) :
          (Invokes(e.payload) /\ Malformed(e.payload))
          => /\ UNCHANGED <<state, inflight, genCalls>>
             /\ NothingEnqueued
             /\ IF e.payload.form = "null"
                THEN last'.result = "raised" /\ UNCHANGED messages
                ELSE \/ /\ last'.result = "default"
                        /\ messages' = Append(messages, TaskMessage(e.payload))
                     \/ /\ last'.result = "defaultRaised"
                        /\ UNCHANGED messages]_vars

\* C10 happens: a payload that is no JSON has just been run and its message
\* is the last of the log.
C10_Witness ==
    /\ last.op = "executeTask"
    /\ last.result = "default"
    /\ last.payload.form = "text"
    /\ messages # <<>>
    /\ messages[Len(messages)] = TaskMessage(last.payload)

\* C11 (as claimed): no run of executeTask ends with an exception, whatever
\* the payload and whichever of generateText, setState, saveMessages and
\* schedule fails.
C11_NoPropagation ==
    last.result \notin {"raised", "defaultRaised"}

\* C12: a run of executeTask for a fingerprint while no itinerary is stored,
\* or the stored one has another id, calls no generator, writes no state,
\* appends no message and enqueues nothing.
C12_BaseGuard ==
    [][\A e \in BagToSet(queue) :
          (/\ Invokes(e.payload)
           /\ IsAltDescription(e.payload)
           /\ \/ state.lastItinerary = <<>>
              \/ state.lastItinerary[1].id # e.payload.itineraryId)
          => (UNCHANGED <<state, messages, inflight, genCalls>> /\ NothingEnqueued)]_vars

\* C12 happens: executeTask has just returned at the base check for a
\* fingerprint that is still scheduled (entry false) while the stored
\* itinerary belongs to another fingerprint.
C12_Witness ==
    /\ last.op = "executeTask"
    /\ last.result = "noBase"
    /\ Status(state, exhausted, last.payload.itineraryId) = "scheduled"
    /\ state.lastItinerary # <<>>
    /\ state.lastItinerary[1].id # last.payload.itineraryId

\* C13 (as claimed): when setState rejects in executeTask, the run leaves
\* the state and the log as they were and enqueues no further invocation.
C13_PersistenceFailureFatal ==
    [][\A slot \in Slots, altText \in AltTexts, scheduleOk \in BOOLEAN :
          GenerateTextResolves(slot, altText, FALSE, scheduleOk)
          => (state' = state /\ messages' = messages /\ NothingEnqueued)]_vars

\* C14: a run of wrappedOnFinish for an accepted text whose fingerprint has
\* no entry yet writes the entry false and the answer's text as
\* lastItinerary, leaves every other entry and the profile alone, and
\* enqueues exactly one invocation with delay 15 whose payload carries the
\* fingerprint and no retry count. The state is written before the enqueue:
\* when the enqueue fails, the write has happened all the same.
C14_FirstScheduling ==
    [][\A t \in UserTexts, finalText \in FinalTexts, scheduleOk \in BOOLEAN :
          LET text == lastUserText(t)
              itineraryId == itineraryIdFrom(text)
              entries == state.altOfferedFor
          IN (/\ OnFinish(t, finalText, scheduleOk)
              /\ text # NoText
              /\ looksLikeItineraryRequest(text)
              /\ itineraryId \notin DOMAIN entries)
             => /\ state'.altOfferedFor =
                       [x \in (DOMAIN entries) \cup {itineraryId} |->
                           IF x = itineraryId THEN FALSE ELSE entries[x]]
                /\ state'.lastItinerary = <<[id |-> itineraryId, text |-> finalText]>>
                /\ state'.profile = state.profile
                /\ queue' = IF scheduleOk
                            THEN queue (+) SetToBag({[delay |-> 15,
                                     callback |-> "executeTask",
                                     payload |-> [form |-> "object", kind |-> "altItinerary",
                                                  itineraryId |-> itineraryId,
                                                  retry |-> NoRetry]]})
                            ELSE queue]_vars

\* C14 happens: a first request has just been scheduled; its entry is false,
\* its answer is stored and exactly one invocation for it is pending.
C14_Witness ==
    /\ last.op = "onFinish"
    /\ last.result = "scheduled"
    /\ Count(primaryEnq, last.payload.itineraryId) = 1
    /\ Status(state, exhausted, last.payload.itineraryId) = "scheduled"
    /\ state.lastItinerary[1].id = last.payload.itineraryId
    /\ Pending(queue, last.payload.itineraryId) = 1
    /\ \A e \in BagToSet(queue) : e.delay = 15 /\ e.payload.retry = NoRetry

\* the results of generateText that trim to the empty string
EmptyAltTexts == {<<>>, <<32>>}

\* C15: when generateText rejects, or resolves with empty or blank text, in
\* a run whose payload has no retry count, the run appends no message,
\* leaves the state as it is (a scheduled entry stays scheduled) and enqueues
\* exactly one invocation with delay 10, the same fingerprint and retry 1;
\* rejection and empty text have the same effect.
C15_FirstFailureRetries ==
    [][\A slot \in Slots :
          LET itineraryId == inflight[slot].payload.itineraryId
              failed == \/ GenerateTextRejects(slot, TRUE)
                        \/ \E altText \in EmptyAltTexts :
                               GenerateTextResolves(slot, altText, TRUE, TRUE)
          IN (failed /\ inflight[slot].payload.retry = NoRetry)
             => /\ messages' = messages
                /\ state' = state
                /\ Status(state, exhausted, itineraryId) = "scheduled"
                   => Status(state', exhausted', itineraryId) = "scheduled"
                /\ queue' = queue (+) SetToBag({[delay |-> 10,
                                 callback |-> "executeTask",
                                 payload |-> [form |-> "object", kind |-> "altItinerary",
                                              itineraryId |-> itineraryId,
                                              retry |-> 1]]})]_vars

\* C15 happens: generateText has just returned empty text in a first run;
\* the entry is still false, no alternative is in the log and the retry with
\* count 1 and delay 10 is pending.
C15_Witness ==
    /\ last.op = "generateText empty"
    /\ last.result = "retry"
    /\ last.payload.retry = NoRetry
    /\ Status(state, exhausted, last.payload.itineraryId) = "scheduled"
    /\ AltPositions(last.payload.itineraryId) = {}
    /\ BagIn(Scheduled(10, AltDescription(last.payload.itineraryId, 1)), queue)

\* the texts of UserTexts that trim to nothing or match no pattern
RejectedTexts == {TxtTrips, TxtEmpty}

\* C16: "trips" and "" are the texts the classifier path rejects, and a run
\* of wrappedOnFinish for a rejected text leaves profile, lastItinerary and
\* altOfferedFor as they are and enqueues nothing.
C16_ClassifierRejection ==
    [][/\ RejectedTexts =
              {t \in UserTexts :
                  lastUserText(t) = NoText \/ ~looksLikeItineraryRequest(lastUserText(t))}
       /\ \A t \in RejectedTexts, finalText \in FinalTexts :
              OnFinish(t, finalText, TRUE)
              => (state' = state /\ queue' = queue /\ primaryEnq' = primaryEnq)]_vars

\* C16 happens: a turn asking "trips" has just finished after an itinerary
\* was scheduled; "trips" has no entry and nothing is pending for it.
C16_Witness ==
    /\ last.op = "onFinish"
    /\ last.result = "rejected"
    /\ last.payload.itineraryId = itineraryIdFrom(TxtTrips)
    /\ state.lastItinerary # <<>>
    /\ last.payload.itineraryId \notin DOMAIN state.altOfferedFor
    /\ Pending(queue, last.payload.itineraryId) = 0

\* C17 (as claimed): the setState by which executeTask marks a fingerprint
\* completed sets its entry to true and leaves profile, lastItinerary and
\* every other entry as they were immediately before the write.
C17_CommitFrame ==
    [][\A slot \in Slots, altText \in AltTexts \ EmptyAltTexts :
          LET itineraryId == inflight[slot].payload.itineraryId
              entries == state.altOfferedFor
          IN GenerateTextResolves(slot, altText, TRUE, TRUE)
             => /\ state'.profile = state.profile
                /\ state'.lastItinerary = state.lastItinerary
                /\ state'.altOfferedFor =
                       [x \in (DOMAIN entries) \cup {itineraryId} |->
                           IF x = itineraryId THEN TRUE ELSE entries[x]]]_vars

\* C18: whenever lastItinerary is set, altOfferedFor has an entry for its
\* id; so the state an invocation saw when it passed the base check has an
\* entry for the fingerprint of its payload.
C18_LastItineraryHasEntry ==
    /\ state.lastItinerary # <<>>
       => state.lastItinerary[1].id \in DOMAIN state.altOfferedFor
    /\ \A slot \in Slots :
           inflight[slot].pc # "idle"
           => inflight[slot].payload.itineraryId \in DOMAIN inflight[slot].s.altOfferedFor

\* C18 happens: a completing write from an old snapshot has removed the entry
\* of a scheduled fingerprint, and the stored itinerary still has its entry.
C18_Witness ==
    /\ last.op = "setState resolved"
    /\ state.lastItinerary # <<>>
    /\ state.lastItinerary[1].id \in DOMAIN state.altOfferedFor
    /\ \E itineraryId \in DOMAIN primaryEnq : itineraryId \notin DOMAIN state.altOfferedFor

\* C19 (as claimed): once saveMessages has rejected after the fingerprint was
\* marked completed, the fingerprint stays completed, the generator is not
\* called for it again and no alternative message for it is appended.
C19_EmitFailureSilent ==
    [][\A itineraryId \in emitFailed :
          /\ Status(state', exhausted', itineraryId) = "completed"
          /\ Count(genCalls', itineraryId) = Count(genCalls, itineraryId)
          /\ AltPositions(itineraryId)' = AltPositions(itineraryId)]_vars

\* p * c modulo 2^32 for p given as 16-bit halves <<hi, lo>> and 0 <= c < 2^15
MulSmall(p, c) ==
    LET low == p[2] * c
    IN <<(p[1] * c + (low \div 65536)) % 65536, low % 65536>>

\* a + b modulo 2^32 on 16-bit halves
AddHalves(a, b) ==
    LET low == a[2] + b[2]
    IN <<(a[1] + b[1] + (low \div 65536)) % 65536, low % 65536>>

\* 31^k modulo 2^32
RECURSIVE Pow31(_)
Pow31(k) == IF k = 0 THEN <<0, 1>> ELSE MulSmall(Pow31(k - 1), 31)

\* the sum of t[j] * 31^(Len(t) - j) over j in 1..i, modulo 2^32
RECURSIVE PolySum(_, _)
PolySum(t, i) ==
    IF i = 0 THEN <<0, 0>>
    ELSE AddHalves(PolySum(t, i - 1), MulSmall(Pow31(Len(t) - i), t[i]))

\* (sum of charCode_i * 31^(n-1-i)) mod 2^32
PolyHash(t) == PolySum(t, Len(t))

\* a sequence of hexadecimal digit values without its leading zeros
RECURSIVE StripZeros(_)
StripZeros(d) == IF Len(d) > 1 /\ Head(d) = 0 THEN StripZeros(Tail(d)) ELSE d

\* the hexadecimal form of a number given as 16-bit halves
HexForm(p) ==
    LET digits == StripZeros(<<p[1] \div 4096, (p[1] \div 256) % 16, (p[1] \div 16) % 16,
                               p[1] % 16, p[2] \div 4096, (p[2] \div 256) % 16,
                               (p[2] \div 16) % 16, p[2] % 16>>)
    IN [j \in 1..Len(digits) |-> HexChar[digits[j] + 1]]

\* C20: at every iteration of itineraryIdFrom the accumulator is in
\* [0, 2^32) and equals the polynomial of the characters read so far modulo
\* 2^32; the result is "itn-" followed by the hexadecimal form of
\* (sum of charCode_i * 31^(n-1-i)) mod 2^32; and a chat turn with the same
\* text computes this same fingerprint whatever the conversation state is.
C20_Fingerprint ==
    /\ fp.h[1] \in 0..65535 /\ fp.h[2] \in 0..65535
    /\ fp.h = PolyHash(SubSeq(fp.text, 1, fp.i))
    /\ fp.id # NoText
       => /\ fp.id = <<"itn-">> \o HexForm(PolyHash(fp.text))
          /\ fp.id = itineraryIdFrom(fp.text)
    /\ last.op = "onFinish" => last.payload.itineraryId = fp.id

\* C20 happens: the fingerprint of "trip €€€€", whose polynomial exceeds
\* 2^32, was computed, and two chat turns with this text, the second in a
\* state that has its record, have used the same fingerprint.
C20_Witness ==
    /\ fp.text = TxtTripEuro
    /\ fp.wrapped
    /\ fp.id # NoText
    /\ turns = 2
    /\ last.op = "onFinish"
    /\ last.payload.itineraryId = fp.id
    /\ DOMAIN state.altOfferedFor = {fp.id}

====
